---- MODULE Spec2Model ----
(***************************************************************************)
(* A model of three pieces of the reconciler:                              *)
(*   - ReactFiberConcurrentUpdates.old.js: the interleaved update queues,  *)
(*     the registry of queues (concurrentQueues) and the lane propagation  *)
(*     markUpdateLaneFromFiberToRoot;                                      *)
(*   - ReactDOMUpdateBatching.js: batchedUpdates and finishEventHandler;   *)
(*   - the host context stack (pushHostContainer, pushHostContext, ...).   *)
(* Objects are numbered; the JavaScript null is NULL.                      *)
(***************************************************************************)
EXTENDS Integers, Sequences, FiniteSets, TLC

\* ---------------------------------------------------------------- bounds
\* Update records that can be created in one behaviour of SpecQ.
MaxUpdates == 3
\* Update queues.
NumQueues == 2
\* Fiber objects of the tree family of SpecL.
NumFibers == 3
\* Update records that can be created in one behaviour of SpecL.
MaxLaneUpdates == 1
\* Width of a lane bitset; the lanes passed in are 1 .. 2^LaneBits - 1.
LaneBits == 2
\* Calls of markUpdateLaneFromFiberToRoot that propLog keeps.
LogCap == 2
\* batchedUpdates calls that can be running at once (one inside the other).
MaxDepth == 3
\* Calls of markUpdateLaneFromFiberToRoot in one behaviour of SpecW.
MaxWarnCalls == 1
\* Entries of concurrentQueues in SpecR.
MaxRegistry == 3
\* Fibers that the traversal of SpecH can enter, and how many at once.
NumHostFibers == 3
MaxHostDepth == 3

\* ------------------------------------------------------------- constants
\* The JavaScript null.
NULL == 0
\* ReactFiberLane: NoLanes.
NoLanes == 0
\* ReactWorkTags: the tag of the root marker, and the other tags.
HostRoot == "HostRoot"
Tags == {"HostRoot", "HostComponent"}
\* ReactFiberFlags, as sets of flag names: a & b is the intersection.
NoFlags == {}
Placement == {"Placement"}
Hydrating == {"Hydrating"}
Update == {"Update"}
\* The flags fields of SpecW.
FlagSets == {NoFlags, Update, Placement, Hydrating \cup Update}

Updates == 1..MaxUpdates
Queues == 1..NumQueues
Fibers == 1..NumFibers
\* The fibers and lanes that SpecQ passes to the enqueue functions.
QFibers == {1, 2}
QLanes == {1, 2}
Lanes == 1..(2^LaneBits - 1)

VARIABLES
  \* ReactFiberConcurrentUpdates.old.js
  next,              \* update.next of every update record (NULL: not linked yet)
  pending,           \* queue.pending
  interleaved,       \* queue.interleaved
  concurrentQueues,  \* the registry; the empty sequence is null
  nalloc,            \* update records created so far (records are 1..nalloc)
  \* fibers
  lanes,             \* fiber.lanes
  childLanes,        \* fiber.childLanes
  return,            \* fiber.return
  alternate,         \* fiber.alternate
  tag,               \* fiber.tag
  flags,             \* fiber.flags
  stateNode,         \* fiber.stateNode
  dev,               \* __DEV__
  warnings,          \* fibers named by warnAboutUpdateOnNotYetMountedFiberInDEV
  \* observation of the calls
  lastCall,          \* the last call made, its arguments and what it returned
  finishRun,         \* finishQueueingConcurrentUpdates calls in a row (up to 2)
  arrival,           \* per queue, the records enqueued on it, in the order of the calls
  sideLog,           \* per queue, those enqueued since the last finishQueueing... call
  duplicates,        \* registry entries the last finishQueueing... call found twice
  propLog,           \* the calls of markUpdateLaneFromFiberToRoot, while at most LogCap
  \* ReactDOMUpdateBatching.js
  isInsideEventHandler,
  callStack,         \* the batchedUpdates calls that are running, the innermost last
  lastExit,          \* the batchedUpdates call that ended last
  \* the host context stack
  valueStack,        \* ReactFiberStack: the values saved by push, the latest last
  rootInstanceStackCursor,   \* rootInstanceStackCursor.current
  contextStackCursor,        \* contextStackCursor.current
  contextFiberStackCursor,   \* contextFiberStackCursor.current
  path,              \* the fibers entered and not yet left, the innermost last
  reentered,         \* a fiber has been entered while it was on the path
  hostCall           \* the last call on the host context stack and how it ended

queueVars == <<next, pending, interleaved, concurrentQueues>>
laneVars == <<lanes, childLanes, warnings>>
treeVars == <<return, alternate, tag, flags, stateNode, dev>>
obsVars == <<lastCall, finishRun, arrival, sideLog, propLog, duplicates>>
updatesVars == <<queueVars, nalloc, laneVars, treeVars, obsVars>>
batchVars == <<isInsideEventHandler, callStack, lastExit>>
cursorVars ==
  <<rootInstanceStackCursor, contextStackCursor, contextFiberStackCursor>>
hostVars == <<valueStack, cursorVars, path, reentered, hostCall>>
vars == <<updatesVars, batchVars, hostVars>>

\* ------------------------------------------------------------ lane bitsets
RECURSIVE BitOr(_, _)
BitOr(a, b) ==
  IF a = 0 THEN b
  ELSE IF b = 0 THEN a
  ELSE (IF a % 2 = 1 \/ b % 2 = 1 THEN 1 ELSE 0) + 2 * BitOr(a \div 2, b \div 2)

\* ReactFiberLane: mergeLanes(a, b) = a | b.
mergeLanes(a, b) == BitOr(a, b)

\* set includes every bit of subset.
IncludesLanes(set, subset) == BitOr(set, subset) = set

\* ------------------------------------------------- markUpdateLaneFromFiberToRoot
\* Lines 159-166: the lanes after the source fiber and its alternate are marked.
MarkSource(l, sourceFiber, lane) ==
  LET l1 == [l EXCEPT ![sourceFiber] = mergeLanes(@, lane)]
      alt == alternate[sourceFiber]
  IN  IF alt # NULL THEN [l1 EXCEPT ![alt] = mergeLanes(@, lane)] ELSE l1

\* Lines 167-174: the warning about the source fiber.
WarnSource(w, sourceFiber) ==
  IF /\ dev
     /\ alternate[sourceFiber] = NULL
     /\ (flags[sourceFiber] \cap (Placement \cup Hydrating)) # NoFlags
  THEN w \cup {sourceFiber}
  ELSE w

\* Marks the parent only, not its alternate.
MarkParentNoAlternate(cl, parent, lane) ==
  [cl EXCEPT ![parent] = mergeLanes(@, lane)]

\* Lines 179-183: one pass of the loop body on childLanes.
MarkParent(cl, parent, lane) ==
  LET cl1 == [cl EXCEPT ![parent] = mergeLanes(@, lane)]
      alt == alternate[parent]
  IN  IF alt # NULL THEN [cl1 EXCEPT ![alt] = mergeLanes(@, lane)] ELSE cl1

\* The warning of the loop body naming the parent it was found at.
WarnParentNamesParent(w, parent, sourceFiber) ==
  IF /\ alternate[parent] = NULL
     /\ dev
     /\ (flags[parent] \cap (Placement \cup Hydrating)) # NoFlags
  THEN w \cup {parent}
  ELSE w

\* Lines 183-189: the warning of the loop body; it names the source fiber.
WarnParent(w, parent, sourceFiber) ==
  IF /\ alternate[parent] = NULL
     /\ dev
     /\ (flags[parent] \cap (Placement \cup Hydrating)) # NoFlags
  THEN w \cup {sourceFiber}
  ELSE w

\* The loop left after its first pass.
WalkToParent(st, sourceFiber, lane) ==
  IF st.parent = NULL THEN st
  ELSE [node |-> st.parent,
        parent |-> return[st.parent],
        childLanes |-> MarkParent(st.childLanes, st.parent, lane),
        warnings |-> WarnParent(st.warnings, st.parent, sourceFiber)]

\* Lines 176-192: the loop. st = [node, parent, childLanes, warnings].
RECURSIVE WalkToRoot(_, _, _)
WalkToRoot(st, sourceFiber, lane) ==
  IF st.parent = NULL THEN st
  ELSE WalkToRoot([node |-> st.parent,
                   parent |-> return[st.parent],
                   childLanes |-> MarkParent(st.childLanes, st.parent, lane),
                   warnings |-> WarnParent(st.warnings, st.parent, sourceFiber)],
                  sourceFiber, lane)

\* Returns the stateNode of the last node whatever its tag.
RootOfAnyTag(node) == [root |-> stateNode[node], reads |-> {node}]

\* Lines 193-198: what is returned, and the fibers whose stateNode is read.
RootOf(node) ==
  IF tag[node] = HostRoot
  THEN [root |-> stateNode[node], reads |-> {node}]
  ELSE [root |-> NULL, reads |-> {}]

\* Starts the walk at the source fiber instead of its parent, so that the
\* source's own childLanes is marked too.
markUpdateLaneFromSelf(sourceFiber, lane) ==
  LET st == WalkToRoot([node |-> sourceFiber,
                        parent |-> sourceFiber,
                        childLanes |-> childLanes,
                        warnings |-> WarnSource(warnings, sourceFiber)],
                       sourceFiber, lane)
      r == RootOf(st.node)
  IN  [lanes |-> MarkSource(lanes, sourceFiber, lane),
       childLanes |-> st.childLanes,
       warnings |-> st.warnings,
       node |-> st.node,
       root |-> r.root,
       reads |-> r.reads]

\* Lines 154-199: the fields after the call and what it returns.
markUpdateLaneFromFiberToRoot(sourceFiber, lane) ==
  LET st == WalkToRoot([node |-> sourceFiber,
                        parent |-> return[sourceFiber],
                        childLanes |-> childLanes,
                        warnings |-> WarnSource(warnings, sourceFiber)],
                       sourceFiber, lane)
      r == RootOf(st.node)
  IN  [lanes |-> MarkSource(lanes, sourceFiber, lane),
       childLanes |-> st.childLanes,
       warnings |-> st.warnings,
       node |-> st.node,
       root |-> r.root,
       reads |-> r.reads]

\* propLog after one more call: the calls made so far while there are at most
\* LogCap of them, and then only the mark <<NULL, NoLanes>>.
LogOverflow == <<<<NULL, NoLanes>>>>

LogCall(fiber, lane) ==
  IF propLog # LogOverflow /\ Len(propLog) < LogCap
  THEN Append(propLog, <<fiber, lane>>)
  ELSE LogOverflow

Call(op, fiber, queue, update, lane, root, reads) ==
  [op |-> op, fiber |-> fiber, queue |-> queue, update |-> update,
   lane |-> lane, root |-> root, reads |-> reads]

\* `return markUpdateLaneFromFiberToRoot(fiber, lane)` at the end of op.
Propagate(op, fiber, queue, update, lane) ==
  LET m == markUpdateLaneFromFiberToRoot(fiber, lane)
  IN  /\ lanes' = m.lanes
      /\ childLanes' = m.childLanes
      /\ warnings' = m.warnings
      /\ lastCall' = Call(op, fiber, queue, update, lane, m.root, m.reads)
      /\ propLog' = LogCall(fiber, lane)

\* -------------------------------------------------------------- the queues
\* Starts a new array on every call.
pushConcurrentUpdateQueueAnew(queue) == <<queue>>

\* Lines 38-46.
pushConcurrentUpdateQueue(queue) ==
  IF concurrentQueues = <<>> THEN <<queue>> ELSE Append(concurrentQueues, queue)

\* Splices the two lists the other way round: the pending span after the
\* interleaved one.
MergeQueueSideFirst(st, queue) ==
  LET lastInterleavedUpdate == st.interleaved[queue]
  IN  IF lastInterleavedUpdate # NULL
      THEN LET firstInterleavedUpdate == st.next[lastInterleavedUpdate]
               lastPendingUpdate == st.pending[queue]
           IN  IF lastPendingUpdate # NULL
               THEN [next |-> [st.next EXCEPT
                                 ![lastInterleavedUpdate] = st.next[lastPendingUpdate],
                                 ![lastPendingUpdate] = firstInterleavedUpdate],
                     pending |-> st.pending,
                     interleaved |-> [st.interleaved EXCEPT ![queue] = NULL]]
               ELSE [next |-> st.next,
                     pending |-> [st.pending EXCEPT ![queue] = lastInterleavedUpdate],
                     interleaved |-> [st.interleaved EXCEPT ![queue] = NULL]]
      ELSE st

\* The loop body with `queue.pending = lastInterleavedUpdate` after the null
\* check instead of inside it.
MergeQueueLosesPending(st, queue) ==
  LET lastInterleavedUpdate == st.interleaved[queue]
  IN  IF lastInterleavedUpdate # NULL
      THEN LET firstInterleavedUpdate == st.next[lastInterleavedUpdate]
               lastPendingUpdate == st.pending[queue]
               nxt == IF lastPendingUpdate # NULL
                      THEN LET firstPendingUpdate == st.next[lastPendingUpdate]
                           IN  [st.next EXCEPT
                                  ![lastPendingUpdate] = firstInterleavedUpdate,
                                  ![lastInterleavedUpdate] = firstPendingUpdate]
                      ELSE st.next
           IN  [next |-> nxt,
                pending |-> [st.pending EXCEPT ![queue] = lastInterleavedUpdate],
                interleaved |-> [st.interleaved EXCEPT ![queue] = NULL]]
      ELSE [st EXCEPT !.pending = [st.pending EXCEPT ![queue] = NULL]]

\* Lines 61-74: the loop body for one registered queue.
\* st = [next, pending, interleaved].
MergeQueue(st, queue) ==
  LET lastInterleavedUpdate == st.interleaved[queue]
  IN  IF lastInterleavedUpdate # NULL
      THEN LET firstInterleavedUpdate == st.next[lastInterleavedUpdate]
               lastPendingUpdate == st.pending[queue]
               nxt == IF lastPendingUpdate # NULL
                      THEN LET firstPendingUpdate == st.next[lastPendingUpdate]
                           IN  [st.next EXCEPT
                                  ![lastPendingUpdate] = firstInterleavedUpdate,
                                  ![lastInterleavedUpdate] = firstPendingUpdate]
                      ELSE st.next
           IN  [next |-> nxt,
                pending |-> [st.pending EXCEPT ![queue] = lastInterleavedUpdate],
                interleaved |-> [st.interleaved EXCEPT ![queue] = NULL]]
      ELSE st

\* Lines 60-75: the loop over the registry from index i.
RECURSIVE MergeFrom(_, _)
MergeFrom(i, st) ==
  IF i > Len(concurrentQueues) THEN st
  ELSE MergeFrom(i + 1, MergeQueue(st, concurrentQueues[i]))

\* The loop body with `queue.pending = lastInterleavedUpdate` moved out of the
\* null check.
MergeQueueUnguarded(st, queue) ==
  LET m == MergeQueue(st, queue)
  IN  [m EXCEPT !.pending = [st.pending EXCEPT ![queue] = st.interleaved[queue]]]

RECURSIVE MergeFromUnguarded(_, _)
MergeFromUnguarded(i, st) ==
  IF i > Len(concurrentQueues) THEN st
  ELSE MergeFromUnguarded(i + 1, MergeQueueUnguarded(st, concurrentQueues[i]))

\* finishQueueingConcurrentUpdates with that loop body and without
\* `concurrentQueues = null`.
finishQueueingKeepingRegistry ==
  /\ LET st == MergeFromUnguarded(1, [next |-> next, pending |-> pending,
                                      interleaved |-> interleaved])
     IN  /\ next' = st.next
         /\ pending' = st.pending
         /\ interleaved' = st.interleaved
         /\ UNCHANGED concurrentQueues
  /\ lastCall' = Call("finishQueueingConcurrentUpdates", NULL, NULL, NULL,
                      NoLanes, NULL, {})
  /\ finishRun' = IF finishRun < 2 THEN finishRun + 1 ELSE finishRun
  /\ sideLog' = [q \in Queues |-> <<>>]
  /\ duplicates' = Len(concurrentQueues) - Cardinality(
                     {concurrentQueues[i] : i \in 1..Len(concurrentQueues)})
  /\ UNCHANGED <<nalloc, laneVars, treeVars, arrival, propLog, batchVars, hostVars>>

\* Lines 48-78.
finishQueueingConcurrentUpdates ==
  /\ IF concurrentQueues # <<>>
     THEN LET st == MergeFrom(1, [next |-> next, pending |-> pending,
                                  interleaved |-> interleaved])
          IN  /\ next' = st.next
              /\ pending' = st.pending
              /\ interleaved' = st.interleaved
              /\ concurrentQueues' = <<>>
     ELSE UNCHANGED queueVars
  /\ lastCall' = Call("finishQueueingConcurrentUpdates", NULL, NULL, NULL,
                      NoLanes, NULL, {})
  /\ finishRun' = IF finishRun < 2 THEN finishRun + 1 ELSE finishRun
  /\ sideLog' = [q \in Queues |-> <<>>]
  /\ duplicates' = Len(concurrentQueues) - Cardinality(
                     {concurrentQueues[i] : i \in 1..Len(concurrentQueues)})
  /\ UNCHANGED <<nalloc, laneVars, treeVars, arrival, propLog, batchVars, hostVars>>

\* The record of an enqueue call in arrival and sideLog.
Arrive(queue, update) ==
  /\ arrival' = [arrival EXCEPT ![queue] = Append(@, update)]
  /\ sideLog' = [sideLog EXCEPT ![queue] = Append(@, update)]

\* enqueueConcurrentHookUpdate without `interleaved.next = update`.
enqueueConcurrentHookUpdateNoBackLink(fiber, queue, update, lane) ==
  /\ IF interleaved[queue] = NULL
     THEN /\ next' = [next EXCEPT ![update] = update]
          /\ concurrentQueues' = pushConcurrentUpdateQueue(queue)
     ELSE /\ next' = [next EXCEPT ![update] = next[interleaved[queue]]]
          /\ UNCHANGED concurrentQueues
  /\ interleaved' = [interleaved EXCEPT ![queue] = update]
  /\ Propagate("enqueueConcurrentHookUpdate", fiber, queue, update, lane)
  /\ nalloc' = update
  /\ finishRun' = 0
  /\ duplicates' = 0
  /\ Arrive(queue, update)
  /\ UNCHANGED <<pending, treeVars, batchVars, hostVars>>

\* enqueueConcurrentHookUpdate that registers the queue on every call.
enqueueConcurrentHookUpdateAlwaysPush(fiber, queue, update, lane) ==
  /\ IF interleaved[queue] = NULL
     THEN next' = [next EXCEPT ![update] = update]
     ELSE next' = [next EXCEPT ![update] = next[interleaved[queue]],
                               ![interleaved[queue]] = update]
  /\ concurrentQueues' = pushConcurrentUpdateQueue(queue)
  /\ interleaved' = [interleaved EXCEPT ![queue] = update]
  /\ Propagate("enqueueConcurrentHookUpdate", fiber, queue, update, lane)
  /\ nalloc' = update
  /\ finishRun' = 0
  /\ duplicates' = 0
  /\ Arrive(queue, update)
  /\ UNCHANGED <<pending, treeVars, batchVars, hostVars>>

\* Lines 80-100.
enqueueConcurrentHookUpdate(fiber, queue, update, lane) ==
  /\ IF interleaved[queue] = NULL
     THEN /\ next' = [next EXCEPT ![update] = update]
          /\ concurrentQueues' = pushConcurrentUpdateQueue(queue)
     ELSE /\ next' = [next EXCEPT ![update] = next[interleaved[queue]],
                                  ![interleaved[queue]] = update]
          /\ UNCHANGED concurrentQueues
  /\ interleaved' = [interleaved EXCEPT ![queue] = update]
  /\ Propagate("enqueueConcurrentHookUpdate", fiber, queue, update, lane)
  /\ nalloc' = update
  /\ finishRun' = 0
  /\ duplicates' = 0
  /\ Arrive(queue, update)
  /\ UNCHANGED <<pending, treeVars, batchVars, hostVars>>

\* enqueueConcurrentHookUpdateAndEagerlyBailout that ends with
\* markUpdateLaneFromFiberToRoot(fiber, lane) like the other two.
enqueueConcurrentHookUpdateAndEagerlyBailoutPropagates(fiber, queue, update, lane) ==
  /\ IF interleaved[queue] = NULL
     THEN /\ next' = [next EXCEPT ![update] = update]
          /\ concurrentQueues' = pushConcurrentUpdateQueue(queue)
     ELSE /\ next' = [next EXCEPT ![update] = next[interleaved[queue]],
                                  ![interleaved[queue]] = update]
          /\ UNCHANGED concurrentQueues
  /\ interleaved' = [interleaved EXCEPT ![queue] = update]
  /\ Propagate("enqueueConcurrentHookUpdateAndEagerlyBailout", fiber, queue,
               update, lane)
  /\ nalloc' = update
  /\ finishRun' = 0
  /\ duplicates' = 0
  /\ Arrive(queue, update)
  /\ UNCHANGED <<pending, treeVars, batchVars, hostVars>>

\* Lines 102-120.
enqueueConcurrentHookUpdateAndEagerlyBailout(fiber, queue, update, lane) ==
  /\ IF interleaved[queue] = NULL
     THEN /\ next' = [next EXCEPT ![update] = update]
          /\ concurrentQueues' = pushConcurrentUpdateQueue(queue)
     ELSE /\ next' = [next EXCEPT ![update] = next[interleaved[queue]],
                                  ![interleaved[queue]] = update]
          /\ UNCHANGED concurrentQueues
  /\ interleaved' = [interleaved EXCEPT ![queue] = update]
  /\ lastCall' = Call("enqueueConcurrentHookUpdateAndEagerlyBailout", fiber,
                      queue, update, lane, NULL, {})
  /\ nalloc' = update
  /\ finishRun' = 0
  /\ duplicates' = 0
  /\ Arrive(queue, update)
  /\ UNCHANGED <<pending, laneVars, treeVars, propLog, batchVars, hostVars>>

\* enqueueConcurrentClassUpdate with `update.next = interleaved` for
\* `update.next = interleaved.next`.
enqueueConcurrentClassUpdateAfterTail(fiber, queue, update, lane) ==
  /\ IF interleaved[queue] = NULL
     THEN /\ next' = [next EXCEPT ![update] = update]
          /\ concurrentQueues' = pushConcurrentUpdateQueue(queue)
     ELSE /\ next' = [next EXCEPT ![update] = interleaved[queue],
                                  ![interleaved[queue]] = update]
          /\ UNCHANGED concurrentQueues
  /\ interleaved' = [interleaved EXCEPT ![queue] = update]
  /\ Propagate("enqueueConcurrentClassUpdate", fiber, queue, update, lane)
  /\ nalloc' = update
  /\ finishRun' = 0
  /\ duplicates' = 0
  /\ Arrive(queue, update)
  /\ UNCHANGED <<pending, treeVars, batchVars, hostVars>>

\* Lines 122-144.
enqueueConcurrentClassUpdate(fiber, queue, update, lane) ==
  /\ IF interleaved[queue] = NULL
     THEN /\ next' = [next EXCEPT ![update] = update]
          /\ concurrentQueues' = pushConcurrentUpdateQueue(queue)
     ELSE /\ next' = [next EXCEPT ![update] = next[interleaved[queue]],
                                  ![interleaved[queue]] = update]
          /\ UNCHANGED concurrentQueues
  /\ interleaved' = [interleaved EXCEPT ![queue] = update]
  /\ Propagate("enqueueConcurrentClassUpdate", fiber, queue, update, lane)
  /\ nalloc' = update
  /\ finishRun' = 0
  /\ duplicates' = 0
  /\ Arrive(queue, update)
  /\ UNCHANGED <<pending, treeVars, batchVars, hostVars>>

\* Lines 146-148.
enqueueConcurrentRenderForLane(fiber, lane) ==
  /\ Propagate("enqueueConcurrentRenderForLane", fiber, NULL, NULL, lane)
  /\ finishRun' = 0
  /\ duplicates' = 0
  /\ UNCHANGED <<queueVars, nalloc, treeVars, arrival, sideLog, batchVars, hostVars>>

\* Lines 38-46, called from outside the module for any queue.
pushConcurrentUpdateQueueCall(queue) ==
  /\ Len(concurrentQueues) < MaxRegistry
  /\ concurrentQueues' = pushConcurrentUpdateQueue(queue)
  /\ lastCall' = Call("pushConcurrentUpdateQueue", NULL, queue, NULL, NoLanes,
                      NULL, {})
  /\ finishRun' = 0
  /\ duplicates' = 0
  /\ UNCHANGED <<next, pending, interleaved, nalloc, laneVars, treeVars,
                 arrival, sideLog, propLog, batchVars, hostVars>>

\* The update record a caller creates for its call: the next unused one.
FreshUpdates(cap) == IF nalloc < cap THEN {nalloc + 1} ELSE {}


\* ------------------------------------------------- ReactDOMUpdateBatching.js
\* A running batchedUpdates call: [outer, pc, fnThrew, finishes, needs,
\* flushes, restores].
\*   outer: the call found isInsideEventHandler false and went on to line 56;
\*   pc: "fn" in batchedUpdatesImpl(fn, a, b) or fn(a, b), "flush" in
\*       flushSyncImpl(), "restore" in restoreStateIfNeeded();
\*   fnThrew: fn ended by throwing;
\*   finishes, flushes, restores: the calls of finishEventHandler, flushSyncImpl
\*       and restoreStateIfNeeded this call has made;
\*   needs: what needsStateRestore() returned to it.
Frame(outer) ==
  [outer |-> outer, pc |-> "fn", fnThrew |-> FALSE, finishes |-> 0,
   needs |-> FALSE, flushes |-> 0, restores |-> 0]

Top == callStack[Len(callStack)]
Rest == SubSeq(callStack, 1, Len(callStack) - 1)

\* A call that has ended: the frame, and whether it threw to its caller.
Exit(frame, threw) ==
  [outer |-> frame.outer, pc |-> frame.pc, fnThrew |-> frame.fnThrew,
   finishes |-> frame.finishes, needs |-> frame.needs,
   flushes |-> frame.flushes, restores |-> frame.restores,
   threw |-> threw, depth |-> Len(callStack)]

InitBatch ==
  /\ isInsideEventHandler = FALSE
  /\ callStack = <<>>
  /\ lastExit = [outer |-> FALSE, pc |-> "none", fnThrew |-> FALSE,
                 finishes |-> 0, needs |-> FALSE, flushes |-> 0,
                 restores |-> 0, threw |-> FALSE, depth |-> 0]

\* Code that can call batchedUpdates is running: an event source (nothing is
\* running), an fn, flushSyncImpl or restoreStateIfNeeded.
CanCall ==
  IF callStack = <<>> THEN TRUE ELSE Top.pc \in {"fn", "flush", "restore"}

\* batchedUpdates that never sets isInsideEventHandler (line 56 left out).
batchedUpdatesFlagNeverSet ==
  /\ CanCall
  /\ Len(callStack) < MaxDepth
  /\ callStack' = Append(callStack, Frame(~isInsideEventHandler))
  /\ UNCHANGED <<isInsideEventHandler, lastExit, updatesVars, hostVars>>

\* Lines 49-58: batchedUpdates is called and reaches fn.
batchedUpdates ==
  /\ CanCall
  /\ Len(callStack) < MaxDepth
  /\ IF isInsideEventHandler
     THEN /\ callStack' = Append(callStack, Frame(FALSE))
          /\ UNCHANGED isInsideEventHandler
     ELSE /\ isInsideEventHandler' = TRUE
          /\ callStack' = Append(callStack, Frame(TRUE))
  /\ UNCHANGED <<lastExit, updatesVars, hostVars>>

\* The finally block with lines 60 and 61 exchanged: finishEventHandler runs
\* before isInsideEventHandler is cleared.
FinallyClearsFlagLast(fnThrew, controlledComponentsHavePendingUpdates) ==
  LET frame == [Top EXCEPT !.fnThrew = fnThrew,
                           !.finishes = @ + 1,
                           !.needs = controlledComponentsHavePendingUpdates]
  IN  IF controlledComponentsHavePendingUpdates
      THEN /\ callStack' = Append(Rest, [frame EXCEPT !.pc = "flush",
                                                      !.flushes = @ + 1])
           /\ UNCHANGED <<isInsideEventHandler, lastExit>>
      ELSE /\ isInsideEventHandler' = FALSE
           /\ callStack' = Rest
           /\ lastExit' = Exit(frame, fnThrew)

\* The finally block with flushSyncImpl() called whatever needsStateRestore()
\* returned.
FinallyAlwaysFlushes(fnThrew, controlledComponentsHavePendingUpdates) ==
  /\ isInsideEventHandler' = FALSE
  /\ callStack' = Append(Rest, [Top EXCEPT
                                  !.fnThrew = fnThrew,
                                  !.finishes = @ + 1,
                                  !.needs = controlledComponentsHavePendingUpdates,
                                  !.pc = "flush",
                                  !.flushes = @ + 1])
  /\ UNCHANGED lastExit

\* Lines 59-62 and 30-38: the finally block up to the test of
\* controlledComponentsHavePendingUpdates; then flushSyncImpl() is called
\* (line 44) or finishEventHandler returns and with it batchedUpdates.
Finally(fnThrew, controlledComponentsHavePendingUpdates) ==
  /\ isInsideEventHandler' = FALSE
  /\ LET frame == [Top EXCEPT !.fnThrew = fnThrew,
                              !.finishes = @ + 1,
                              !.needs = controlledComponentsHavePendingUpdates]
     IN  IF controlledComponentsHavePendingUpdates
         THEN /\ callStack' = Append(Rest, [frame EXCEPT !.pc = "flush",
                                                         !.flushes = @ + 1])
              /\ UNCHANGED lastExit
         ELSE /\ callStack' = Rest
              /\ lastExit' = Exit(frame, fnThrew)

\* Line 54: the fn of a call made inside another batch ends.
Inline(fnThrew) ==
  /\ callStack' = Rest
  /\ lastExit' = Exit([Top EXCEPT !.fnThrew = fnThrew], fnThrew)
  /\ UNCHANGED isInsideEventHandler

\* fn returns: line 54, or line 58 and then the finally block.
fnReturns(controlledComponentsHavePendingUpdates) ==
  /\ callStack # <<>>
  /\ Top.pc = "fn"
  /\ IF Top.outer
     THEN Finally(FALSE, controlledComponentsHavePendingUpdates)
     ELSE Inline(FALSE)
  /\ UNCHANGED <<updatesVars, hostVars>>

\* fn throws and no finally block runs.
fnThrowsNoFinally(controlledComponentsHavePendingUpdates) ==
  /\ callStack # <<>>
  /\ Top.pc = "fn"
  /\ Inline(TRUE)
  /\ UNCHANGED <<updatesVars, hostVars>>

\* fn throws: out of line 54, or out of line 58 into the finally block.
fnThrows(controlledComponentsHavePendingUpdates) ==
  /\ callStack # <<>>
  /\ Top.pc = "fn"
  /\ IF Top.outer
     THEN Finally(TRUE, controlledComponentsHavePendingUpdates)
     ELSE Inline(TRUE)
  /\ UNCHANGED <<updatesVars, hostVars>>

\* Lines 44-45: flushSyncImpl() returns and restoreStateIfNeeded() is called.
flushSyncImplReturns ==
  /\ callStack # <<>>
  /\ Top.pc = "flush"
  /\ callStack' = Append(Rest, [Top EXCEPT !.pc = "restore", !.restores = @ + 1])
  /\ UNCHANGED <<isInsideEventHandler, lastExit, updatesVars, hostVars>>

\* Line 44: flushSyncImpl() throws, out of finishEventHandler and batchedUpdates.
flushSyncImplThrows ==
  /\ callStack # <<>>
  /\ Top.pc = "flush"
  /\ callStack' = Rest
  /\ lastExit' = Exit(Top, TRUE)
  /\ UNCHANGED <<isInsideEventHandler, updatesVars, hostVars>>

\* Lines 45-47 and 62: restoreStateIfNeeded() returns, then finishEventHandler
\* and batchedUpdates (which rethrows what fn threw).
restoreStateIfNeededReturns ==
  /\ callStack # <<>>
  /\ Top.pc = "restore"
  /\ callStack' = Rest
  /\ lastExit' = Exit(Top, Top.fnThrew)
  /\ UNCHANGED <<isInsideEventHandler, updatesVars, hostVars>>

\* Line 45: restoreStateIfNeeded() throws.
restoreStateIfNeededThrows ==
  /\ callStack # <<>>
  /\ Top.pc = "restore"
  /\ callStack' = Rest
  /\ lastExit' = Exit(Top, TRUE)
  /\ UNCHANGED <<isInsideEventHandler, updatesVars, hostVars>>


\* ------------------------------------------------------ the host context stack
\* The fibers, containers and host contexts of SpecH; NO_CONTEXT is none of them.
NO_CONTEXT == 0
HostFibers == 1..NumHostFibers
HostContexts == {11, 12}
Containers == {21}

\* The stack and the three cursors, as one value.
HostState ==
  [valueStack |-> valueStack,
   rootInstanceStackCursor |-> rootInstanceStackCursor,
   contextStackCursor |-> contextStackCursor,
   contextFiberStackCursor |-> contextFiberStackCursor]

\* ReactFiberStack push(cursor, value, fiber): records (fiber, the cursor's
\* value) and sets cursor.current.
push(st, cursor, value, fiber) ==
  [st EXCEPT !.valueStack = Append(@, [node |-> fiber,
                                      previousValue |-> st[cursor]]),
             ![cursor] = value]

\* ReactFiberStack pop(cursor, fiber): restores the value recorded by the most
\* recent push and drops the record; nothing on an empty stack.
pop(st, cursor, fiber) ==
  IF st.valueStack = <<>> THEN st
  ELSE [st EXCEPT ![cursor] = st.valueStack[Len(st.valueStack)].previousValue,
                  !.valueStack = SubSeq(@, 1, Len(@) - 1)]

\* What a call did: its name, whether it threw, what it returned.
HostCall(op, threw, value) ==
  [op |-> op, threw |-> threw, value |-> value]

Cursors(st) ==
  <<st.rootInstanceStackCursor, st.contextStackCursor,
    st.contextFiberStackCursor>>

\* The fiber entered by fn, the cursors before the call, whether the call threw.
Entered(fn, fiber, threw, context) ==
  [fn |-> fn, fiber |-> fiber, before |-> Cursors(HostState), threw |-> threw,
   context |-> context]

\* The fiber is on the path.
OnPath(fiber) == \E i \in 1..Len(path) : path[i].fiber = fiber

SetHost(st) ==
  /\ valueStack' = st.valueStack
  /\ rootInstanceStackCursor' = st.rootInstanceStackCursor
  /\ contextStackCursor' = st.contextStackCursor
  /\ contextFiberStackCursor' = st.contextFiberStackCursor

InitHost ==
  /\ valueStack = <<>>
  /\ rootInstanceStackCursor = NO_CONTEXT
  /\ contextStackCursor = NO_CONTEXT
  /\ contextFiberStackCursor = NO_CONTEXT
  /\ path = <<>>
  /\ reentered = FALSE
  /\ hostCall = HostCall("none", FALSE, NO_CONTEXT)

\* requiredContext that returns whatever it is given.
requiredContextNeverThrows(c) == FALSE

\* Lines 30-39: requiredContext(c) throws.
requiredContextThrows(c) == c = NO_CONTEXT

\* Lines 41-44.
getRootHostContainer ==
  /\ hostCall' = IF requiredContextThrows(rootInstanceStackCursor)
                 THEN HostCall("getRootHostContainer", TRUE, NO_CONTEXT)
                 ELSE HostCall("getRootHostContainer", FALSE, rootInstanceStackCursor)
  /\ UNCHANGED <<valueStack, cursorVars, path, reentered, updatesVars, batchVars>>

\* Lines 84-87.
getHostContext ==
  /\ hostCall' = IF requiredContextThrows(contextStackCursor)
                 THEN HostCall("getHostContext", TRUE, NO_CONTEXT)
                 ELSE HostCall("getHostContext", FALSE, contextStackCursor)
  /\ UNCHANGED <<valueStack, cursorVars, path, reentered, updatesVars, batchVars>>

\* pushHostContainer without the placeholder of line 70: the context cursor is
\* pushed only once getRootHostContext has returned.
pushHostContainerNoPlaceholder(fiber, nextRootInstance, nextRootContext, throws) ==
  /\ Len(path) < MaxHostDepth
  /\ LET s1 == push(HostState, "rootInstanceStackCursor", nextRootInstance, fiber)
         s2 == push(s1, "contextFiberStackCursor", fiber, fiber)
         s5 == push(s2, "contextStackCursor", nextRootContext, fiber)
     IN  IF throws
         THEN /\ SetHost(s2)
              /\ path' = Append(path, Entered("pushHostContainer", fiber, TRUE,
                                                NO_CONTEXT))
              /\ hostCall' = HostCall("pushHostContainer", TRUE, NO_CONTEXT)
         ELSE /\ SetHost(s5)
              /\ path' = Append(path, Entered("pushHostContainer", fiber, FALSE,
                                                nextRootContext))
              /\ hostCall' = HostCall("pushHostContainer", FALSE, NO_CONTEXT)
  /\ reentered' = (reentered \/ OnPath(fiber))
  /\ UNCHANGED <<updatesVars, batchVars>>

\* Lines 46-76. getRootHostContext(nextRootInstance) returns nextRootContext
\* or throws.
pushHostContainer(fiber, nextRootInstance, nextRootContext, throws) ==
  /\ Len(path) < MaxHostDepth
  /\ LET s1 == push(HostState, "rootInstanceStackCursor", nextRootInstance, fiber)
         s2 == push(s1, "contextFiberStackCursor", fiber, fiber)
         s3 == push(s2, "contextStackCursor", NO_CONTEXT, fiber)
         s4 == pop(s3, "contextStackCursor", fiber)
         s5 == push(s4, "contextStackCursor", nextRootContext, fiber)
     IN  IF throws
         THEN /\ SetHost(s3)
              /\ path' = Append(path, Entered("pushHostContainer", fiber, TRUE,
                                                NO_CONTEXT))
              /\ hostCall' = HostCall("pushHostContainer", TRUE, NO_CONTEXT)
         ELSE /\ SetHost(s5)
              /\ path' = Append(path, Entered("pushHostContainer", fiber, FALSE,
                                                nextRootContext))
              /\ hostCall' = HostCall("pushHostContainer", FALSE, NO_CONTEXT)
  /\ reentered' = (reentered \/ OnPath(fiber))
  /\ UNCHANGED <<updatesVars, batchVars>>

\* Lines 78-82, for the fiber entered last.
popHostContainer(fiber) ==
  /\ path # <<>>
  /\ path[Len(path)].fn = "pushHostContainer"
  /\ path[Len(path)].fiber = fiber
  /\ LET s1 == pop(HostState, "contextStackCursor", fiber)
         s2 == pop(s1, "contextFiberStackCursor", fiber)
         s3 == pop(s2, "rootInstanceStackCursor", fiber)
     IN  SetHost(s3)
  /\ path' = SubSeq(path, 1, Len(path) - 1)
  /\ hostCall' = HostCall("popHostContainer", FALSE, NO_CONTEXT)
  /\ UNCHANGED <<reentered, updatesVars, batchVars>>

\* Lines 89-105. nextContext is what getChildHostContext(context, fiber.type,
\* rootInstance) returns.
pushHostContext(fiber, nextContext) ==
  /\ Len(path) < MaxHostDepth
  /\ IF \/ requiredContextThrows(rootInstanceStackCursor)
        \/ requiredContextThrows(contextStackCursor)
     THEN /\ hostCall' = HostCall("pushHostContext", TRUE, NO_CONTEXT)
          /\ UNCHANGED <<valueStack, cursorVars, path, reentered>>
     ELSE /\ IF contextStackCursor = nextContext
             THEN UNCHANGED <<valueStack, cursorVars>>
             ELSE LET s1 == push(HostState, "contextFiberStackCursor", fiber, fiber)
                      s2 == push(s1, "contextStackCursor", nextContext, fiber)
                  IN  SetHost(s2)
          /\ path' = Append(path, Entered("pushHostContext", fiber, FALSE,
                                            nextContext))
          /\ hostCall' = HostCall("pushHostContext", FALSE, NO_CONTEXT)
          /\ reentered' = (reentered \/ OnPath(fiber))
  /\ UNCHANGED <<updatesVars, batchVars>>

\* popHostContext that always returns at line 111.
popHostContextNever(fiber) ==
  /\ path # <<>>
  /\ path[Len(path)].fn = "pushHostContext"
  /\ path[Len(path)].fiber = fiber
  /\ UNCHANGED <<valueStack, cursorVars>>
  /\ path' = SubSeq(path, 1, Len(path) - 1)
  /\ hostCall' = HostCall("popHostContext", FALSE, NO_CONTEXT)
  /\ UNCHANGED <<reentered, updatesVars, batchVars>>

\* popHostContext without the test of line 110.
popHostContextAlways(fiber) ==
  /\ path # <<>>
  /\ path[Len(path)].fn = "pushHostContext"
  /\ path[Len(path)].fiber = fiber
  /\ LET s1 == pop(HostState, "contextStackCursor", fiber)
         s2 == pop(s1, "contextFiberStackCursor", fiber)
     IN  SetHost(s2)
  /\ path' = SubSeq(path, 1, Len(path) - 1)
  /\ hostCall' = HostCall("popHostContext", FALSE, NO_CONTEXT)
  /\ UNCHANGED <<reentered, updatesVars, batchVars>>

\* Lines 107-116, for the fiber entered last.
popHostContext(fiber) ==
  /\ path # <<>>
  /\ path[Len(path)].fn = "pushHostContext"
  /\ path[Len(path)].fiber = fiber
  /\ IF contextFiberStackCursor # fiber
     THEN UNCHANGED <<valueStack, cursorVars>>
     ELSE LET s1 == pop(HostState, "contextStackCursor", fiber)
              s2 == pop(s1, "contextFiberStackCursor", fiber)
          IN  SetHost(s2)
  /\ path' = SubSeq(path, 1, Len(path) - 1)
  /\ hostCall' = HostCall("popHostContext", FALSE, NO_CONTEXT)
  /\ UNCHANGED <<reentered, updatesVars, batchVars>>

\* ------------------------------------------------------------------- Init
InitQueues ==
  /\ next = [u \in Updates |-> NULL]
  /\ pending = [q \in Queues |-> NULL]
  /\ interleaved = [q \in Queues |-> NULL]
  /\ concurrentQueues = <<>>
  /\ nalloc = 0

InitLanes ==
  /\ lanes = [f \in Fibers |-> NoLanes]
  /\ childLanes = [f \in Fibers |-> NoLanes]
  /\ warnings = {}

InitObs ==
  /\ lastCall = Call("none", NULL, NULL, NULL, NoLanes, NULL, {})
  /\ finishRun = 0
  /\ duplicates = 0
  /\ arrival = [q \in Queues |-> <<>>]
  /\ sideLog = [q \in Queues |-> <<>>]
  /\ propLog = <<>>

\* The FiberRoot of a HostRoot fiber is shared with its alternate; any other
\* fiber's stateNode is an object of its own.
StateNodeOf(f, alt, tg) ==
  IF tg[f] = HostRoot
  THEN 100 + (IF alt[f] # NULL /\ alt[f] < f THEN alt[f] ELSE f)
  ELSE 200 + f

\* The tree of SpecQ: the chain NumFibers -> ... -> 2 -> 1, fiber 1 the
\* HostRoot, no alternates, no flags.
InitChain ==
  /\ return = [f \in Fibers |-> f - 1]
  /\ alternate = [f \in Fibers |-> NULL]
  /\ tag = [f \in Fibers |-> IF f = 1 THEN HostRoot ELSE "HostComponent"]
  /\ flags = [f \in Fibers |-> NoFlags]
  /\ stateNode = [f \in Fibers |-> StateNodeOf(f, alternate, tag)]
  /\ dev = TRUE

\* The trees of SpecL. A fiber's parent has a smaller number, so return is
\* acyclic; alternate is a symmetric pairing of fibers at the same position
\* (same tag, parents equal or alternates of each other); only a fiber without
\* parent is tagged HostRoot; no fiber carries flags.
TreeOK(ret, alt, tg) ==
  /\ \A f \in Fibers : ret[f] < f
  /\ \A f \in Fibers :
       alt[f] # NULL =>
         /\ alt[f] # f
         /\ alt[alt[f]] = f
         /\ tg[alt[f]] = tg[f]
         /\ IF ret[f] = NULL THEN ret[alt[f]] = NULL
            ELSE ret[alt[f]] # NULL /\ ret[alt[f]] \in {ret[f], alt[ret[f]]}
  /\ \A f \in Fibers : tg[f] = HostRoot => ret[f] = NULL

InitTrees ==
  /\ return \in [Fibers -> Fibers \cup {NULL}]
  /\ alternate \in [Fibers -> Fibers \cup {NULL}]
  /\ tag \in [Fibers -> Tags]
  /\ TreeOK(return, alternate, tag)
  /\ flags = [f \in Fibers |-> NoFlags]
  /\ stateNode = [f \in Fibers |-> StateNodeOf(f, alternate, tag)]
  /\ dev = TRUE

\* The trees of SpecW: those of SpecL, with any flags, in a build with or
\* without __DEV__.
InitFlaggedTrees ==
  /\ return \in [Fibers -> Fibers \cup {NULL}]
  /\ alternate \in [Fibers -> Fibers \cup {NULL}]
  /\ tag \in [Fibers -> Tags]
  /\ TreeOK(return, alternate, tag)
  /\ flags \in [Fibers -> FlagSets]
  /\ stateNode = [f \in Fibers |-> StateNodeOf(f, alternate, tag)]
  /\ dev \in BOOLEAN

InitQ == InitQueues /\ InitLanes /\ InitObs /\ InitChain /\ InitBatch /\ InitHost
InitL == InitQueues /\ InitLanes /\ InitObs /\ InitTrees /\ InitBatch /\ InitHost
InitB == InitQueues /\ InitLanes /\ InitObs /\ InitChain /\ InitBatch /\ InitHost
InitR == InitQueues /\ InitLanes /\ InitObs /\ InitChain /\ InitBatch /\ InitHost
InitW ==
  InitQueues /\ InitLanes /\ InitObs /\ InitFlaggedTrees /\ InitBatch /\ InitHost
InitH == InitQueues /\ InitLanes /\ InitObs /\ InitChain /\ InitBatch /\ InitHost

\* ------------------------------------------------------------------- Next
\* The update queues: two fibers of a chain, every queue.
NextQ ==
  \/ \E fiber \in QFibers, queue \in Queues,
        update \in FreshUpdates(MaxUpdates), lane \in QLanes :
       enqueueConcurrentHookUpdate(fiber, queue, update, lane)
  \/ \E fiber \in QFibers, queue \in Queues,
        update \in FreshUpdates(MaxUpdates), lane \in QLanes :
       enqueueConcurrentHookUpdateAndEagerlyBailout(fiber, queue, update, lane)
  \/ \E fiber \in QFibers, queue \in Queues,
        update \in FreshUpdates(MaxUpdates), lane \in QLanes :
       enqueueConcurrentClassUpdate(fiber, queue, update, lane)
  \/ finishQueueingConcurrentUpdates

\* The update queues, with callers that register queues themselves.
NextR ==
  \/ \E fiber \in QFibers, queue \in Queues,
        update \in FreshUpdates(MaxUpdates), lane \in QLanes :
       enqueueConcurrentHookUpdate(fiber, queue, update, lane)
  \/ \E fiber \in QFibers, queue \in Queues,
        update \in FreshUpdates(MaxUpdates), lane \in QLanes :
       enqueueConcurrentHookUpdateAndEagerlyBailout(fiber, queue, update, lane)
  \/ \E fiber \in QFibers, queue \in Queues,
        update \in FreshUpdates(MaxUpdates), lane \in QLanes :
       enqueueConcurrentClassUpdate(fiber, queue, update, lane)
  \/ \E queue \in Queues : pushConcurrentUpdateQueueCall(queue)
  \/ finishQueueingConcurrentUpdates

\* The lanes: every fiber of every tree, one queue.
NextL ==
  \/ \E fiber \in Fibers, queue \in {1},
        update \in FreshUpdates(MaxLaneUpdates), lane \in Lanes :
       enqueueConcurrentHookUpdate(fiber, queue, update, lane)
  \/ \E fiber \in Fibers, queue \in {1},
        update \in FreshUpdates(MaxLaneUpdates), lane \in Lanes :
       enqueueConcurrentHookUpdateAndEagerlyBailout(fiber, queue, update, lane)
  \/ \E fiber \in Fibers, queue \in {1},
        update \in FreshUpdates(MaxLaneUpdates), lane \in Lanes :
       enqueueConcurrentClassUpdate(fiber, queue, update, lane)
  \/ \E fiber \in Fibers, lane \in Lanes :
       enqueueConcurrentRenderForLane(fiber, lane)
  \/ finishQueueingConcurrentUpdates

\* The warnings: the propagating functions on every fiber of every flagged
\* tree.
NextW ==
  \/ \E fiber \in Fibers, queue \in {1},
        update \in FreshUpdates(MaxLaneUpdates), lane \in Lanes :
       /\ Len(propLog) < MaxWarnCalls
       /\ enqueueConcurrentHookUpdate(fiber, queue, update, lane)
  \/ \E fiber \in Fibers, queue \in {1},
        update \in FreshUpdates(MaxLaneUpdates), lane \in Lanes :
       /\ Len(propLog) < MaxWarnCalls
       /\ enqueueConcurrentClassUpdate(fiber, queue, update, lane)
  \/ \E fiber \in Fibers, lane \in Lanes :
       /\ Len(propLog) < MaxWarnCalls
       /\ enqueueConcurrentRenderForLane(fiber, lane)

\* batchedUpdates, called by an event source and from inside the calls it makes.
NextB ==
  \/ batchedUpdates
  \/ \E controlledComponentsHavePendingUpdates \in BOOLEAN :
       fnReturns(controlledComponentsHavePendingUpdates)
  \/ \E controlledComponentsHavePendingUpdates \in BOOLEAN :
       fnThrows(controlledComponentsHavePendingUpdates)
  \/ flushSyncImplReturns
  \/ flushSyncImplThrows
  \/ restoreStateIfNeededReturns
  \/ restoreStateIfNeededThrows

\* The host context stack, driven by a traversal that leaves the fibers it
\* entered in reverse order.
NextH ==
  \/ \E fiber \in HostFibers, nextRootInstance \in Containers,
        nextRootContext \in HostContexts, throws \in BOOLEAN :
       pushHostContainer(fiber, nextRootInstance, nextRootContext, throws)
  \/ \E fiber \in HostFibers, nextContext \in HostContexts :
       pushHostContext(fiber, nextContext)
  \/ \E fiber \in HostFibers : popHostContainer(fiber)
  \/ \E fiber \in HostFibers : popHostContext(fiber)
  \/ getHostContext
  \/ getRootHostContainer

SpecQ == InitQ /\ [][NextQ]_vars
SpecL == InitL /\ [][NextL]_vars
SpecB == InitB /\ [][NextB]_vars
SpecR == InitR /\ [][NextR]_vars
SpecW == InitW /\ [][NextW]_vars
SpecH == InitH /\ [][NextH]_vars

\* ------------------------------------------------------ reading the lists
\* The records from cur to tail, following next; at most MaxUpdates of them.
RECURSIVE Walk(_, _, _, _)
Walk(nxt, cur, tail, fuel) ==
  IF cur = NULL \/ fuel = 0 THEN <<>>
  ELSE IF cur = tail THEN <<cur>>
  ELSE <<cur>> \o Walk(nxt, nxt[cur], tail, fuel - 1)

\* The list whose tail is `tail`, read from its first element (tail.next).
ListOf(nxt, tail) ==
  IF tail = NULL THEN <<>> ELSE Walk(nxt, nxt[tail], tail, MaxUpdates)

SeqToSet(s) == {s[i] : i \in 1..Len(s)}
NoRepeat(s) == Cardinality(SeqToSet(s)) = Len(s)

\* tail is null, or following next from tail.next visits every member once
\* and ends at tail.
Circular(nxt, tail) ==
  tail # NULL =>
    LET l == ListOf(nxt, tail)
    IN  /\ Len(l) >= 1
        /\ l[Len(l)] = tail
        /\ NoRepeat(l)
        /\ nxt[tail] = l[1]

PropagatingOps ==
  {"enqueueConcurrentHookUpdate", "enqueueConcurrentClassUpdate",
   "enqueueConcurrentRenderForLane"}
EnqueueOps ==
  {"enqueueConcurrentHookUpdate", "enqueueConcurrentClassUpdate",
   "enqueueConcurrentHookUpdateAndEagerlyBailout"}

\* The step is a call of finishQueueingConcurrentUpdates.
FinishStep == lastCall'.op = "finishQueueingConcurrentUpdates"

\* ------------------------------------------------------------------ C1
\* C1 as stated: after N >= 1 appends on a queue and one
\* finishQueueingConcurrentUpdates call, the pending list read from
\* pending.next is the N appended records in the order of the appends followed
\* by the records that were in the pending list before, and it is circular.
C1_SideFirst ==
  [][FinishStep =>
       \A q \in Queues :
         sideLog[q] # <<>> =>
           /\ ListOf(next', pending'[q]) = sideLog[q] \o ListOf(next, pending[q])
           /\ Circular(next', pending'[q])]_vars

\* C1, amended: after N >= 1 appends on a queue and one
\* finishQueueingConcurrentUpdates call, the pending list read from
\* pending.next is the records that were in the pending list before the call,
\* in their order, followed by the N appended records in the order of the
\* appends, and it is circular (pending.next is its first element).
C1_PendingFirst ==
  [][FinishStep =>
       \A q \in Queues :
         sideLog[q] # <<>> =>
           /\ ListOf(next', pending'[q]) = ListOf(next, pending[q]) \o sideLog[q]
           /\ Circular(next', pending'[q])]_vars

\* A merge has put two appended records behind a record that was pending.
C1_Witness ==
  /\ lastCall.op = "finishQueueingConcurrentUpdates"
  /\ \E q \in Queues :
       /\ Len(arrival[q]) = 3
       /\ pending[q] = arrival[q][3]
       /\ next[arrival[q][1]] = arrival[q][2]
       /\ sideLog[q] = <<>>
       /\ finishRun = 1

\* ------------------------------------------------------------------ C2
\* The records of a queue: its pending list and then its interleaved list.
QueueOrder(q) == ListOf(next, pending[q]) \o ListOf(next, interleaved[q])

\* C2: after any enqueue and finishQueueingConcurrentUpdates calls, the pending
\* list read from its head followed by the interleaved list read from its head
\* is the records enqueued on the queue in the order of the calls; a merge
\* makes queue.pending the former interleaved tail; and appending B to an
\* interleaved list holding only A gives B.next = A, A.next = B,
\* interleaved = B.
C2_Fifo ==
  /\ [](\A q \in Queues : QueueOrder(q) = arrival[q])
  /\ [][/\ FinishStep =>
             \A q \in Queues :
               interleaved[q] # NULL => pending'[q] = interleaved[q]
        /\ \A q \in Queues :
             (/\ lastCall'.op \in EnqueueOps
              /\ lastCall'.queue = q
              /\ interleaved[q] # NULL
              /\ next[interleaved[q]] = interleaved[q]) =>
               LET A == interleaved[q]
                   B == lastCall'.update
               IN  /\ next'[B] = A
                   /\ next'[A] = B
                   /\ interleaved'[q] = B]_vars

\* A queue holds a merged record, then one merged later, then an interleaved one.
C2_Witness ==
  \E q \in Queues :
    /\ Len(ListOf(next, pending[q])) = 2
    /\ Len(ListOf(next, interleaved[q])) = 1
    /\ finishRun = 0
    /\ arrival[q] = <<1, 2, 3>>

\* ------------------------------------------------------------------ C3
\* The fibers on the return chain of f, f excluded.
RECURSIVE AncestorsOf(_)
AncestorsOf(f) ==
  IF return[f] = NULL THEN {} ELSE {return[f]} \cup AncestorsOf(return[f])

\* C3 as stated: from empty lanes, an update with lane 1 enqueued for a child
\* and then one with lane 2 for its parent leave parent.childLanes including
\* 1 and 2, child.lanes = 1 and parent.lanes = 2.
C3_ParentChildLanesBoth ==
  \A child \in Fibers, parent \in Fibers :
    (return[child] = parent /\ propLog = <<<<child, 1>>, <<parent, 2>>>>) =>
      /\ IncludesLanes(childLanes[parent], 1)
      /\ IncludesLanes(childLanes[parent], 2)
      /\ lanes[child] = 1
      /\ lanes[parent] = 2

\* C3, amended: from empty lanes, an update with lane 1 enqueued for a child
\* and then one with lane 2 for its parent leave parent.childLanes = 1 (lane 2
\* goes to parent.lanes and to the childLanes of the parent's own ancestors and
\* their alternates, not to parent.childLanes), child.lanes = 1 and
\* parent.lanes = 2.
C3_ChildThenParent ==
  \A child \in Fibers, parent \in Fibers :
    (return[child] = parent /\ propLog = <<<<child, 1>>, <<parent, 2>>>>) =>
      /\ childLanes[parent] = 1
      /\ lanes[child] = 1
      /\ lanes[parent] = 2
      /\ \A a \in AncestorsOf(parent) :
           /\ childLanes[a] = 3
           /\ alternate[a] # NULL => childLanes[alternate[a]] = 3

\* The two calls of the scenario have been made, the parent being under a root.
C3_Witness ==
  \E child \in Fibers, parent \in Fibers :
    /\ return[child] = parent
    /\ return[parent] # NULL
    /\ propLog = <<<<child, 1>>, <<parent, 2>>>>
    /\ lastCall.op = "enqueueConcurrentClassUpdate"

\* ------------------------------------------------------------------ C4
\* C4: after markUpdateLaneFromFiberToRoot(node, lane), reached through an
\* enqueue function that propagates, node.lanes and node.alternate.lanes
\* include lane, and so does childLanes of every fiber on node's return chain
\* and of the alternate of each.
C4_LanesMarked ==
  lastCall.op \in PropagatingOps =>
    LET node == lastCall.fiber
        lane == lastCall.lane
    IN  /\ IncludesLanes(lanes[node], lane)
        /\ alternate[node] # NULL => IncludesLanes(lanes[alternate[node]], lane)
        /\ \A a \in AncestorsOf(node) :
             /\ IncludesLanes(childLanes[a], lane)
             /\ alternate[a] # NULL =>
                  IncludesLanes(childLanes[alternate[a]], lane)

\* The last call marked, with a lane the fiber did not have alone, a fiber
\* below a fiber that has an alternate.
C4_Witness ==
  /\ lastCall.op \in PropagatingOps
  /\ \E a \in AncestorsOf(lastCall.fiber) :
       /\ alternate[a] # NULL
       /\ childLanes[alternate[a]] = 3
  /\ lanes[lastCall.fiber] = 3
  /\ lastCall.lane = 2

\* ------------------------------------------------------------------ C5
\* C5: once finishQueueingConcurrentUpdates has run, every record enqueued
\* since the call before is in the pending list of its own queue once and in no
\* other, every record that was in a pending list is still in it, every
\* interleaved field is null and the registry is empty.
C5_NothingLost ==
  [][FinishStep =>
       /\ \A q \in Queues :
            LET after == ListOf(next', pending'[q])
            IN  /\ NoRepeat(after)
                /\ Circular(next', pending'[q])
                /\ SeqToSet(sideLog[q]) \subseteq SeqToSet(after)
                /\ SeqToSet(ListOf(next, pending[q])) \subseteq SeqToSet(after)
                /\ \A r \in Queues \ {q} :
                     SeqToSet(sideLog[r]) \cap SeqToSet(after) = {}
                /\ interleaved'[q] = NULL
       /\ concurrentQueues' = <<>>]_vars

\* A merge has run with records enqueued on two queues, in turns.
C5_Witness ==
  /\ lastCall.op = "finishQueueingConcurrentUpdates"
  /\ finishRun = 1
  /\ \E q \in Queues, r \in Queues :
       /\ q # r
       /\ arrival[q] = <<1, 3>>
       /\ arrival[r] = <<2>>
       /\ pending[q] = 3
       /\ pending[r] = 2

\* ------------------------------------------------------------------ C6
\* The last fiber of the return chain of f: f itself when f.return is null.
RECURSIVE TopOf(_)
TopOf(f) == IF return[f] = NULL THEN f ELSE TopOf(return[f])

\* C6: markUpdateLaneFromFiberToRoot returns the stateNode of the topmost
\* fiber of the return chain exactly when that fiber's tag is HostRoot;
\* otherwise it returns null and reads no stateNode.
C6_RootOrNull ==
  lastCall.op \in PropagatingOps =>
    LET top == TopOf(lastCall.fiber)
    IN  IF tag[top] = HostRoot
        THEN lastCall.root = stateNode[top] /\ lastCall.root # NULL
        ELSE lastCall.root = NULL /\ lastCall.reads = {}

\* The last call started below a fiber that has no parent and is no HostRoot.
C6_Witness ==
  /\ lastCall.op \in PropagatingOps
  /\ return[lastCall.fiber] # NULL
  /\ tag[TopOf(lastCall.fiber)] # HostRoot
  /\ lastCall.root = NULL

\* ------------------------------------------------------------------ C7
\* C7: a finishQueueingConcurrentUpdates call that follows another, with no
\* enqueue in between, leaves every pending list, every interleaved field and
\* the registry as they were.
C7_Idempotent ==
  [][(lastCall.op = "finishQueueingConcurrentUpdates" /\ FinishStep) =>
       UNCHANGED queueVars]_vars

\* A second call in a row has been made, on queues that hold merged records.
C7_Witness ==
  /\ finishRun = 2
  /\ \E q \in Queues : Len(ListOf(next, pending[q])) >= 2

\* ------------------------------------------------------------------ C8
\* C8: a batchedUpdates call made while the fn of another call is running
\* runs its fn inline and never runs finishEventHandler; an outermost call
\* runs finishEventHandler exactly once, after its fn has ended.
C8_OnlyOutermostFinishes ==
  /\ \A i \in 2..Len(callStack) :
       callStack[i - 1].pc = "fn" =>
         /\ ~callStack[i].outer
         /\ callStack[i].pc = "fn"
         /\ callStack[i].finishes = 0
  /\ \A i \in 1..Len(callStack) :
       callStack[i].finishes =
         IF callStack[i].outer /\ callStack[i].pc # "fn" THEN 1 ELSE 0
  /\ lastExit.pc # "none" =>
       lastExit.finishes = IF lastExit.outer THEN 1 ELSE 0

\* A nested call has ended while the fn of the outermost call is still running.
C8_Witness ==
  /\ Len(callStack) = 1
  /\ callStack[1].outer
  /\ callStack[1].pc = "fn"
  /\ lastExit.pc # "none"
  /\ ~lastExit.outer
  /\ lastExit.depth = 2
  /\ lastExit.finishes = 0

\* ------------------------------------------------------------------ C9
\* C9: when fn throws, in an outermost or in a nested call,
\* isInsideEventHandler is false once the outermost call has exited and that
\* call has run finishEventHandler exactly once; the next call is outermost.
C9_ThrowClearsFlag ==
  /\ callStack = <<>> => ~isInsideEventHandler
  /\ (lastExit.outer /\ lastExit.fnThrew) => lastExit.finishes = 1
  /\ (callStack = <<>> /\ lastExit.threw) => lastExit.outer
  /\ callStack # <<>> => callStack[1].outer

\* The fn of an outermost call has thrown and the call has exited.
C9_Witness ==
  /\ callStack = <<>>
  /\ lastExit.outer
  /\ lastExit.fnThrew
  /\ lastExit.threw
  /\ lastExit.depth = 1

\* ----------------------------------------------------------------- C10
\* A matching pop is made: the fiber entered last is left.
PopStep == Len(path') < Len(path)

\* Every push on the path was completed.
AllPushed == \A i \in 1..Len(path) : ~path[i].threw

\* C10 as stated: after each matching pop the three cursors hold the values
\* they had immediately before the matching push, for any sequence of pushes.
C10_PopRestores ==
  [][(PopStep /\ AllPushed) =>
       <<rootInstanceStackCursor', contextStackCursor',
         contextFiberStackCursor'>> = path[Len(path)].before]_vars

\* C10, amended: after each matching pop the three cursors hold the values
\* they had immediately before the matching push, provided no fiber was
\* entered while it was already on the path.
C10_PopRestoresDistinct ==
  [][(PopStep /\ AllPushed /\ ~reentered) =>
       <<rootInstanceStackCursor', contextStackCursor',
         contextFiberStackCursor'>> = path[Len(path)].before]_vars

\* Three fibers were entered, none of them twice; the innermost has been
\* left and the cursors are again those set by the push of the second.
C10_Witness ==
  /\ ~reentered
  /\ Len(path) = 2
  /\ AllPushed
  /\ hostCall.op = "popHostContext"
  /\ path[1].fn = "pushHostContainer"
  /\ path[2].fn = "pushHostContext"
  /\ contextFiberStackCursor = path[2].fiber
  /\ contextStackCursor # path[2].before[2]
  /\ Len(valueStack) = 5

\* ----------------------------------------------------------------- C11
\* The three cursors hold NO_CONTEXT.
NoContext ==
  /\ rootInstanceStackCursor = NO_CONTEXT
  /\ contextStackCursor = NO_CONTEXT
  /\ contextFiberStackCursor = NO_CONTEXT

C12_SkipSymmetric ==
  [][~reentered' =>
       /\ (Len(path') > Len(path) /\ path'[Len(path')].fn = "pushHostContext") =>
            IF path'[Len(path')].context # contextStackCursor
            THEN /\ Len(valueStack') = Len(valueStack) + 2
                 /\ SubSeq(valueStack', 1, Len(valueStack)) = valueStack
                 /\ contextStackCursor' = path'[Len(path')].context
                 /\ contextFiberStackCursor' = path'[Len(path')].fiber
                 /\ UNCHANGED rootInstanceStackCursor
            ELSE UNCHANGED <<valueStack, cursorVars>>
       /\ (PopStep /\ path[Len(path)].fn = "pushHostContext") =>
            IF path[Len(path)].context # path[Len(path)].before[2]
            THEN /\ Len(valueStack) >= 2
                 /\ valueStack' = SubSeq(valueStack, 1, Len(valueStack) - 2)
                 /\ contextStackCursor' = path[Len(path)].before[2]
                 /\ contextFiberStackCursor' = path[Len(path)].before[3]
                 /\ UNCHANGED rootInstanceStackCursor
            ELSE UNCHANGED <<valueStack, cursorVars>>]_vars

\* Under a container, a fiber whose push was skipped; a fiber entered inside
\* it has been left again and the cursors are those of the container.
C12_Witness ==
  /\ ~reentered
  /\ hostCall.op = "popHostContext"
  /\ Len(path) = 2
  /\ path[1].fn = "pushHostContainer"
  /\ path[2].fn = "pushHostContext"
  /\ path[2].context = path[2].before[2]
  /\ contextFiberStackCursor = path[1].fiber
  /\ contextStackCursor = path[1].context
  /\ Len(valueStack) = 3

\* ----------------------------------------------------------------- C13
\* How many times queue q is in the registry r.
Registered(r, q) == Cardinality({i \in 1..Len(r) : r[i] = q})

\* C13: between operations a queue is in concurrentQueues exactly once when
\* its interleaved field is not null and not at all when it is null; an
\* append to a queue whose interleaved field is not null leaves the registry
\* as it is.
C13_RegisteredOnce ==
  [][/\ \A q \in Queues :
          /\ Registered(concurrentQueues, q) =
               IF interleaved[q] # NULL THEN 1 ELSE 0
          /\ Registered(concurrentQueues', q) =
               IF interleaved'[q] # NULL THEN 1 ELSE 0
     /\ (lastCall'.op \in EnqueueOps /\ interleaved[lastCall'.queue] # NULL) =>
          UNCHANGED concurrentQueues
     /\ (lastCall'.op \in EnqueueOps /\ interleaved[lastCall'.queue] = NULL) =>
          concurrentQueues' = concurrentQueues \o <<lastCall'.queue>>]_vars

\* After a merge a queue has received two more records and is registered once.
C13_Witness ==
  \E q \in Queues :
    /\ pending[q] # NULL
    /\ Len(ListOf(next, interleaved[q])) = 2
    /\ concurrentQueues = <<q>>

\* ----------------------------------------------------------------- C14
\* The registry r with only the first entry of every queue.
RECURSIVE Dedup(_)
Dedup(r) ==
  IF r = <<>> THEN <<>>
  ELSE LET front == Dedup(SubSeq(r, 1, Len(r) - 1))
       IN  IF \E i \in 1..Len(front) : front[i] = r[Len(r)]
           THEN front ELSE Append(front, r[Len(r)])

\* The merge of the queues of r, from index i.
RECURSIVE MergeOver(_, _, _)
MergeOver(r, i, st) ==
  IF i > Len(r) THEN st ELSE MergeOver(r, i + 1, MergeQueue(st, r[i]))

\* C14: whatever queues are registered more than once,
\* finishQueueingConcurrentUpdates leaves the lists that it leaves when every
\* queue is registered once: each pending list is the old pending list
\* followed by the side list, circular, with every record once.
C14_DuplicatesHarmless ==
  [][FinishStep =>
       LET once == MergeOver(Dedup(concurrentQueues), 1,
                             [next |-> next, pending |-> pending,
                              interleaved |-> interleaved])
       IN  /\ next' = once.next
           /\ pending' = once.pending
           /\ interleaved' = once.interleaved
           /\ \A q \in Queues :
                /\ Circular(next', pending'[q])
                /\ ListOf(next', pending'[q]) =
                     ListOf(next, pending[q]) \o ListOf(next, interleaved[q])]_vars

\* A call has walked a registry that held a queue twice, and a queue now has
\* a pending list of a merged record and an older one.
C14_Witness ==
  /\ lastCall.op = "finishQueueingConcurrentUpdates"
  /\ duplicates >= 1
  /\ \E q \in Queues : Len(ListOf(next, pending[q])) >= 2

\* ----------------------------------------------------------------- C15
\* What lines 86-97 of enqueueConcurrentHookUpdate make of update.next,
\* queue.interleaved and the registry.
HookAppend(queue, update) ==
  [next |-> IF interleaved[queue] = NULL
            THEN [next EXCEPT ![update] = update]
            ELSE [next EXCEPT ![update] = next[interleaved[queue]],
                              ![interleaved[queue]] = update],
   interleaved |-> [interleaved EXCEPT ![queue] = update],
   concurrentQueues |-> IF interleaved[queue] = NULL
                        THEN concurrentQueues \o <<queue>>
                        ELSE concurrentQueues]

\* C15: enqueueConcurrentHookUpdateAndEagerlyBailout and
\* enqueueConcurrentHookUpdate make the same of the side list and the registry
\* for the same arguments; the former changes no lanes and no childLanes,
\* reads no stateNode and returns no root.
C15_BailoutSkipsLanes ==
  [][/\ lastCall'.op \in {"enqueueConcurrentHookUpdate",
                          "enqueueConcurrentHookUpdateAndEagerlyBailout"} =>
          LET a == HookAppend(lastCall'.queue, lastCall'.update)
          IN  /\ next' = a.next
              /\ interleaved' = a.interleaved
              /\ concurrentQueues' = a.concurrentQueues
              /\ UNCHANGED pending
     /\ lastCall'.op = "enqueueConcurrentHookUpdateAndEagerlyBailout" =>
          /\ UNCHANGED <<lanes, childLanes, warnings>>
          /\ lastCall'.root = NULL
          /\ lastCall'.reads = {}]_vars

\* The call was made for a fiber under the root with a lane that the fiber
\* does not have, on a queue whose side list held a record already.
C15_Witness ==
  /\ lastCall.op = "enqueueConcurrentHookUpdateAndEagerlyBailout"
  /\ return[lastCall.fiber] # NULL
  /\ ~IncludesLanes(lanes[lastCall.fiber], lastCall.lane)
  /\ ~IncludesLanes(childLanes[return[lastCall.fiber]], lastCall.lane)
  /\ Len(ListOf(next, interleaved[lastCall.queue])) >= 2

\* ----------------------------------------------------------------- C16
\* The fiber carries Placement or Hydrating and has no alternate.
NotYetMounted(f) ==
  /\ alternate[f] = NULL
  /\ (flags[f] \cap (Placement \cup Hydrating)) # NoFlags

\* The call for source fiber f meets a fiber that is not yet mounted.
Stale(f) == NotYetMounted(f) \/ \E a \in AncestorsOf(f) : NotYetMounted(a)

\* The fields and the result of a call for (f, l) on a tree without flags.
LanesFor(f, l) ==
  [g \in Fibers |->
     IF g = f \/ alternate[g] = f THEN BitOr(lanes[g], l) ELSE lanes[g]]

ChildLanesFor(f, l) ==
  [g \in Fibers |->
     IF \E a \in AncestorsOf(f) : g = a \/ alternate[g] = a
     THEN BitOr(childLanes[g], l) ELSE childLanes[g]]

RootFor(f) ==
  IF tag[TopOf(f)] = HostRoot THEN stateNode[TopOf(f)] ELSE NULL

\* C16 as stated: whenever the source or an ancestor is not yet mounted the
\* source fiber is reported, and lanes, childLanes and the returned root are
\* those of the call on the tree without flags.
C16_WarnsAlways ==
  [][lastCall'.op \in PropagatingOps =>
       /\ Stale(lastCall'.fiber) => lastCall'.fiber \in warnings'
       /\ warnings' \subseteq warnings \cup {lastCall'.fiber}
       /\ lanes' = LanesFor(lastCall'.fiber, lastCall'.lane)
       /\ childLanes' = ChildLanesFor(lastCall'.fiber, lastCall'.lane)
       /\ lastCall'.root = RootFor(lastCall'.fiber)]_vars

\* C16, amended: in a __DEV__ build the source fiber is reported exactly when
\* the source or an ancestor is not yet mounted, in a build without __DEV__
\* nothing is reported, and in both builds lanes, childLanes and the returned
\* root are those of the call on the tree without flags.
C16_WarnsInDev ==
  [][lastCall'.op \in PropagatingOps =>
       /\ warnings' = IF dev /\ Stale(lastCall'.fiber)
                      THEN warnings \cup {lastCall'.fiber}
                      ELSE warnings
       /\ lanes' = LanesFor(lastCall'.fiber, lastCall'.lane)
       /\ childLanes' = ChildLanesFor(lastCall'.fiber, lastCall'.lane)
       /\ lastCall'.root = RootFor(lastCall'.fiber)]_vars

\* In a __DEV__ build a call was made for a mounted fiber under a parent that
\* is not yet mounted: the source is reported, the lane is merged and the
\* root is returned.
C16_Witness ==
  /\ dev
  /\ lastCall.op \in PropagatingOps
  /\ ~NotYetMounted(lastCall.fiber)
  /\ return[lastCall.fiber] # NULL
  /\ NotYetMounted(return[lastCall.fiber])
  /\ warnings = {lastCall.fiber}
  /\ lanes[lastCall.fiber] = lastCall.lane
  /\ childLanes[return[lastCall.fiber]] = lastCall.lane
  /\ lastCall.root # NULL

\* ----------------------------------------------------------------- C17
\* The union of the lanes fields of the fibers of S.
RECURSIVE UnionOfLanes(_)
UnionOfLanes(S) ==
  IF S = {} THEN NoLanes
  ELSE LET g == CHOOSE x \in S : TRUE
       IN  BitOr(lanes[g], UnionOfLanes(S \ {g}))

\* The proper descendants of a by the return pointers.
DescendantsOf(a) == {g \in Fibers : a \in AncestorsOf(g)}

\* C17 as stated: every fiber's childLanes is the union of the lanes of its
\* proper descendants.
C17_ChildLanesIsUnion ==
  \A a \in Fibers : childLanes[a] = UnionOfLanes(DescendantsOf(a))

\* C17, amended: every fiber's childLanes is the union of the lanes of the
\* proper descendants of the fiber and of its alternate.
C17_ChildLanesIsUnionOfPair ==
  \A a \in Fibers :
    childLanes[a] =
      UnionOfLanes(DescendantsOf(a) \cup
                   (IF alternate[a] = NULL THEN {}
                    ELSE DescendantsOf(alternate[a])))

\* A fiber has lanes, its parent has them as childLanes, and the parent's
\* alternate, which has no descendant by the return pointers, has them too.
C17_Witness ==
  \E g \in Fibers :
    /\ lanes[g] # NoLanes
    /\ return[g] # NULL
    /\ alternate[return[g]] # NULL
    /\ DescendantsOf(alternate[return[g]]) = {}
    /\ childLanes[alternate[return[g]]] = lanes[g]
    /\ childLanes[return[g]] = lanes[g]

\* ----------------------------------------------------------------- C18
\* The records of the pending list and of the side list of queue q.
PendingOf(q) == SeqToSet(ListOf(next, pending[q]))
SideOf(q) == SeqToSet(ListOf(next, interleaved[q]))

\* C18: between operations, for every queue, pending and interleaved are
\* each null or the tail of a circular list that visits every member once;
\* the two lists share no record, nor do the lists of two queues; and every
\* record passed to an enqueue function is linked into exactly one list.
C18_WellFormed ==
  /\ \A q \in Queues :
       /\ Circular(next, pending[q])
       /\ Circular(next, interleaved[q])
       /\ PendingOf(q) \cap SideOf(q) = {}
       /\ \A r \in Queues \ {q} :
            (PendingOf(q) \cup SideOf(q)) \cap (PendingOf(r) \cup SideOf(r)) = {}
  /\ \A u \in Updates :
       IF u <= nalloc
       THEN /\ next[u] # NULL
            /\ \E q \in Queues : u \in PendingOf(q) \cup SideOf(q)
       ELSE next[u] = NULL

\* One queue holds two merged records, another a side list of one record.
C18_Witness ==
  \E q \in Queues, r \in Queues :
    /\ q # r
    /\ Len(ListOf(next, pending[q])) = 2
    /\ interleaved[q] = NULL
    /\ Len(ListOf(next, interleaved[r])) = 1
    /\ pending[r] = NULL

\* ----------------------------------------------------------------- C19
\* C19: finishEventHandler calls flushSyncImpl exactly when needsStateRestore()
\* returned true, and restoreStateIfNeeded only then and only after
\* flushSyncImpl has returned; when needsStateRestore() returned false neither
\* is called.
C19_FlushIffNeeded ==
  /\ \A i \in 1..Len(callStack) :
       LET f == callStack[i]
       IN  /\ f.pc = "fn" => f.flushes = 0 /\ f.restores = 0
           /\ f.pc = "flush" =>
                f.outer /\ f.needs /\ f.flushes = 1 /\ f.restores = 0
           /\ f.pc = "restore" =>
                f.outer /\ f.needs /\ f.flushes = 1 /\ f.restores = 1
  /\ (lastExit.pc # "none" /\ ~lastExit.outer) =>
       lastExit.flushes = 0 /\ lastExit.restores = 0
  /\ (lastExit.pc # "none" /\ lastExit.outer) =>
       /\ lastExit.finishes = 1
       /\ lastExit.flushes = IF lastExit.needs THEN 1 ELSE 0
       /\ lastExit.restores =
            IF lastExit.needs /\ lastExit.pc = "restore" THEN 1 ELSE 0
       /\ lastExit.needs <=> lastExit.pc \in {"flush", "restore"}
       /\ lastExit.pc = "flush" => lastExit.threw

\* An outermost call has ended after needsStateRestore() returned true,
\* flushSyncImpl returned and restoreStateIfNeeded returned.
C19_Witness ==
  /\ callStack = <<>>
  /\ lastExit.outer
  /\ lastExit.needs
  /\ lastExit.pc = "restore"
  /\ ~lastExit.threw
  /\ lastExit.flushes = 1
  /\ lastExit.restores = 1

\* ----------------------------------------------------------------- C20
\* A step of pushHostContainer, and a step of popHostContainer.
PushContainerStep ==
  /\ Len(path') = Len(path) + 1
  /\ path'[Len(path')].fn = "pushHostContainer"

PopContainerStep ==
  /\ PopStep
  /\ path[Len(path)].fn = "pushHostContainer"

\* C20: pushHostContainer records three entries whether or not
\* getRootHostContext throws, leaving contextStackCursor.current at NO_CONTEXT
\* when it threw and at the new root context otherwise; the popHostContainer
\* that follows for the same node drops the three entries and restores all
\* three cursors to their values before the push.
C20_Unwindable ==
  [][/\ PushContainerStep =>
        LET e == path'[Len(path')]
        IN  /\ Len(valueStack') = Len(valueStack) + 3
            /\ e.before = Cursors(HostState)
            /\ hostCall'.threw = e.threw
            /\ rootInstanceStackCursor' \in Containers
            /\ contextFiberStackCursor' = e.fiber
            /\ contextStackCursor' =
                 IF e.threw THEN NO_CONTEXT ELSE e.context
            /\ ~e.threw => e.context \in HostContexts
     /\ (PopContainerStep /\ hostCall.op = "pushHostContainer") =>
        /\ Len(valueStack') = Len(valueStack) - 3
        /\ <<rootInstanceStackCursor', contextStackCursor',
             contextFiberStackCursor'>> = path[Len(path)].before
    ]_vars

\* getRootHostContext threw inside a host container nested in another one, so
\* the cursors to restore are not the initial ones.
C20_Witness ==
  /\ hostCall.op = "pushHostContainer"
  /\ hostCall.threw
  /\ Len(path) = 2
  /\ path[2].threw
  /\ path[2].before[2] # NO_CONTEXT
  /\ contextStackCursor = NO_CONTEXT
  /\ Len(valueStack) = 6

\* ----------------------------------------------------------------- C21
\* The call is in its finalize step (finishEventHandler).
Finalizing(frame) == frame.pc \in {"flush", "restore"}

\* The op of an outermost call is executing.
OuterOpRunning ==
  \E i \in 1..Len(callStack) : callStack[i].outer /\ callStack[i].pc = "fn"

\* C21: isInsideEventHandler is true exactly while the op of an outermost
\* batchedUpdates call is executing and is false during the finalize step; a
\* call made from within the finalize step is a new outermost batch that runs
\* its own finalize step; the flag is false after the finalize step threw.
C21_FlagOnlyDuringOp ==
  /\ [](/\ isInsideEventHandler <=> OuterOpRunning
        /\ (callStack # <<>> /\ Finalizing(Top)) => ~isInsideEventHandler
        /\ \A i \in 2..Len(callStack) :
             callStack[i].outer <=> Finalizing(callStack[i - 1])
        /\ (lastExit.pc # "none" /\ lastExit.outer) => lastExit.finishes = 1)
  /\ [][/\ (callStack # <<>> /\ Finalizing(Top)
              /\ Len(callStack') = Len(callStack) + 1) =>
            /\ callStack'[Len(callStack')].outer
            /\ isInsideEventHandler'
        /\ (callStack # <<>> /\ Finalizing(Top)
              /\ Len(callStack') = Len(callStack) - 1) =>
            ~isInsideEventHandler'
       ]_vars

\* A batch started from within the finalize step of another one was an
\* outermost batch, ran its own finalize step, and that step threw.
C21_Witness ==
  /\ Len(callStack) = 1
  /\ Finalizing(callStack[1])
  /\ lastExit.outer
  /\ lastExit.depth = 2
  /\ lastExit.finishes = 1
  /\ lastExit.pc \in {"flush", "restore"}
  /\ lastExit.threw
  /\ ~isInsideEventHandler

====
